---- MODULE Spec2Model ----
(***************************************************************************)
(* A model of pyrx (src/pyrx.py): the Factory with its prefix and type     *)
(* registries, the schema compiler make_schema, the fourteen core          *)
(* validator kinds and the range predicate.                                *)
(*                                                                         *)
(* Python values are tagged records:                                       *)
(*   None          [t |-> "nil"]                                           *)
(*   True / False  [t |-> "bool", b |-> ...]                               *)
(*   a number      [t |-> "num", n |-> whole part, frac |-> tenths]        *)
(*   a text        [t |-> "str", s |-> ...]                                *)
(*   a type name   [t |-> "str", name |-> the groups of the two regular    *)
(*                  expressions of expand_uri]                             *)
(*   a list        [t |-> "list", items |-> <<...>>]                       *)
(*   a dict        [t |-> "dict", items |-> << <<key, value>>, ... >>]     *)
(*                  in insertion order, keys distinct                      *)
(* A call's outcome is [ret |-> value] or [exc |-> the exception class].   *)
(***************************************************************************)
EXTENDS Integers, Sequences, FiniteSets, TLC

VARIABLES
    py,               \* sys.version_info[0] of the interpreter
    prefix_registry,  \* Factory.prefix_registry: name -> base
    type_registry,    \* Factory.type_registry: uri -> core kind or {"schema": ...}
    last,             \* the last Factory call and how it ended
    schema,           \* the definition handed to make_schema
    value,            \* the value handed to check
    tree,             \* the outcome of make_schema(schema)
    result            \* the outcome of tree.check(value)

vars == <<py, prefix_registry, type_registry, last, schema, value, tree, result>>

----------------------------------------------------------------------------
(* Python values *)

Nil == [t |-> "nil"]
Bool(b) == [t |-> "bool", b |-> b]
Num(n, f) == [t |-> "num", n |-> n, frac |-> f]
PyInt(n) == Num(n, 0)
Str(s) == [t |-> "str", s |-> s]
List(items) == [t |-> "list", items |-> items]
Dict(items) == [t |-> "dict", items |-> items]

Ret(v) == [ret |-> v]
Raise(e) == [exc |-> e]
IsRet(r) == "ret" \in DOMAIN r
IsExc(r) == "exc" \in DOMAIN r

\* dict.keys(), key in dict, dict[key]
Keys(d) == {d.items[i][1] : i \in DOMAIN d.items}
Has(d, k) == k \in Keys(d)
Get(d, k) == d.items[CHOOSE i \in DOMAIN d.items : d.items[i][1] = k][2]

\* bool(v): None, False, 0, "", [] and {} are false
Truthy(v) ==
    CASE v.t = "nil" -> FALSE
      [] v.t = "bool" -> v.b
      [] v.t = "num" -> ~(v.n = 0 /\ v.frac = 0)
      [] v.t = "str" -> IF "s" \in DOMAIN v THEN Len(v.s) > 0 ELSE TRUE
      [] v.t = "list" -> Len(v.items) > 0
      [] v.t = "dict" -> Len(v.items) > 0

\* isinstance(v, num_types) and not isinstance(v, bool)
IsNumber(v) == v.t = "num"

\* a bool compares as the integer 1 or 0
AsNum(v) == IF v.t = "bool" THEN PyInt(IF v.b THEN 1 ELSE 0) ELSE v

NumLt(a, b) == a.n < b.n \/ (a.n = b.n /\ a.frac < b.frac)

----------------------------------------------------------------------------
(* Util.make_range_check *)

RangeKeys == {"min", "max", "min-ex", "max-ex"}

\* value < bound, value <= bound, value >= bound, value > bound.  A number
\* against a text, list or dict raises TypeError on Python 3; on Python 2 a
\* number orders before every other non-None object.
Compare(op, v, bound) ==
    IF bound.t \in {"num", "bool"}
    THEN LET b == AsNum(bound) IN
         Ret(CASE op = "<" -> NumLt(v, b)
               [] op = "<=" -> NumLt(v, b) \/ v = b
               [] op = ">=" -> ~NumLt(v, b)
               [] op = ">" -> NumLt(b, v))
    ELSE IF py = 3 THEN Raise("TypeError")
         ELSE Ret(op \in {"<", "<="})

\* Violates with the bound tested for truth: a bound of 0 counts as unset
ViolatesTruthy(range, k, op, v) ==
    IF Has(range, k) /\ Truthy(Get(range, k))
    THEN Compare(op, v, Get(range, k))
    ELSE Ret(FALSE)

\* range.get(k) is not None and value <op> range[k]
Violates(range, k, op, v) ==
    IF Has(range, k) /\ Get(range, k) # Nil
    THEN Compare(op, v, Get(range, k))
    ELSE Ret(FALSE)

check_range(range, v) ==
    LET a == Violates(range, "min", "<", v)
        b == Violates(range, "min-ex", "<=", v)
        c == Violates(range, "max-ex", ">=", v)
        d == Violates(range, "max", ">", v)
    IN  IF IsExc(a) THEN a ELSE IF a.ret THEN Ret(FALSE)
        ELSE IF IsExc(b) THEN b ELSE IF b.ret THEN Ret(FALSE)
        ELSE IF IsExc(c) THEN c ELSE IF c.ret THEN Ret(FALSE)
        ELSE IF IsExc(d) THEN d ELSE IF d.ret THEN Ret(FALSE)
        ELSE Ret(TRUE)

\* the closure's captured dict, or the exception of the constructor
make_range_check(opt) ==
    IF opt.t # "dict" THEN Raise("AttributeError")
    ELSE IF ~(Keys(opt) \subseteq RangeKeys) THEN Raise("ValueError")
    ELSE Ret(opt)

----------------------------------------------------------------------------
(* check of the fourteen core kinds.  A compiled node is a record whose    *)
(* kind field is the subname; an attribute that holds None is a field the  *)
(* record does not have.                                                   *)

RECURSIVE check(_, _)
RECURSIVE CheckEach(_, _, _)
RECURSIVE CheckAny(_, _, _)
RECURSIVE CheckRequired(_, _, _)
RECURSIVE CheckOptional(_, _, _)

\* for ...: if not <schema>.check(<item>): return False   -- over the pairs
\* <<schema, item>> of ps from index i on; then fall through (True)
CheckEach(ps, i, n) ==
    IF i > n THEN Ret(TRUE)
    ELSE LET r == check(ps[i][1], ps[i][2]) IN
         IF IsExc(r) THEN r
         ELSE IF ~r.ret THEN Ret(FALSE)
         ELSE CheckEach(ps, i + 1, n)

\* AnyType.check: for alt in self.alts: if alt.check(value): return True
CheckAny(alts, i, v) ==
    IF i > Len(alts) THEN Ret(FALSE)
    ELSE LET r == check(alts[i], v) IN
         IF IsExc(r) THEN r
         ELSE IF r.ret THEN Ret(TRUE)
         ELSE CheckAny(alts, i + 1, v)

\* RecType.check: the loop over self.required.keys()
CheckRequired(req, i, v) ==
    IF i > Len(req) THEN Ret(TRUE)
    ELSE IF ~Has(v, req[i][1]) THEN Ret(FALSE)
    ELSE LET r == check(req[i][2], Get(v, req[i][1])) IN
         IF IsExc(r) THEN r
         ELSE IF ~r.ret THEN Ret(FALSE)
         ELSE CheckRequired(req, i + 1, v)

\* RecType.check: the loop over self.optional.keys()
CheckOptional(opt, i, v) ==
    IF i > Len(opt) THEN Ret(TRUE)
    ELSE IF ~Has(v, opt[i][1]) THEN CheckOptional(opt, i + 1, v)
    ELSE LET r == check(opt[i][2], Get(v, opt[i][1])) IN
         IF IsExc(r) THEN r
         ELSE IF ~r.ret THEN Ret(FALSE)
         ELSE CheckOptional(opt, i + 1, v)

\* self.range and not self.range(value), self.length and not self.length(len(value))
RangeRejects(node, attr, n) ==
    IF attr \notin DOMAIN node THEN Ret(FALSE)
    ELSE LET r == check_range(node[attr], n) IN
         IF IsExc(r) THEN r ELSE Ret(~r.ret)

\* (not self.value is None) and value != self.value
ValueRejects(node, v) == "value" \in DOMAIN node /\ v # node.value

AllCheck(node, v) ==
    CheckEach([i \in DOMAIN node.alts |-> <<node.alts[i], v>>], 1, Len(node.alts))

AnyCheck(node, v) ==
    IF "alts" \notin DOMAIN node THEN Ret(TRUE)
    ELSE CheckAny(node.alts, 1, v)

ArrCheck(node, v) ==
    IF v.t # "list" THEN Ret(FALSE)
    ELSE LET l == RangeRejects(node, "length", PyInt(Len(v.items))) IN
         IF IsExc(l) THEN l
         ELSE IF l.ret THEN Ret(FALSE)
         ELSE CheckEach([i \in DOMAIN v.items |-> <<node.content_schema, v.items[i]>>],
                        1, Len(v.items))

BoolCheck(node, v) == Ret(v.t = "bool")

DefCheck(node, v) == Ret(v.t # "nil")

FailCheck(node, v) == Ret(FALSE)

IntCheck(node, v) ==
    IF ~IsNumber(v) THEN Ret(FALSE)
    ELSE IF v.frac # 0 THEN Ret(FALSE)
    ELSE LET r == RangeRejects(node, "range", v) IN
         IF IsExc(r) THEN r
         ELSE IF r.ret THEN Ret(FALSE)
         ELSE IF ValueRejects(node, v) THEN Ret(FALSE)
         ELSE Ret(TRUE)

MapCheck(node, v) ==
    IF v.t # "dict" THEN Ret(FALSE)
    ELSE CheckEach([i \in DOMAIN v.items |-> <<node.value_schema, v.items[i][2]>>],
                   1, Len(v.items))

NilCheck(node, v) == Ret(v.t = "nil")

NumCheck(node, v) ==
    IF ~IsNumber(v) THEN Ret(FALSE)
    ELSE LET r == RangeRejects(node, "range", v) IN
         IF IsExc(r) THEN r
         ELSE IF r.ret THEN Ret(FALSE)
         ELSE IF ValueRejects(node, v) THEN Ret(FALSE)
         ELSE Ret(TRUE)

OneCheck(node, v) == Ret(v.t \in {"num", "str", "bool"})

\* RecCheck with rest checked against the whole value
RecCheckWhole(node, v) ==
    IF v.t # "dict" THEN Ret(FALSE)
    ELSE LET unknown == SelectSeq(v.items, LAMBDA kv : kv[1] \notin node.known) IN
         IF Len(unknown) > 0 /\ "rest_schema" \notin DOMAIN node THEN Ret(FALSE)
         ELSE LET r == CheckRequired(node.required, 1, v) IN
              IF IsExc(r) THEN r
              ELSE IF ~r.ret THEN Ret(FALSE)
              ELSE LET o == CheckOptional(node.optional, 1, v) IN
                   IF IsExc(o) THEN o
                   ELSE IF ~o.ret THEN Ret(FALSE)
                   ELSE IF Len(unknown) > 0
                        THEN check(node.rest_schema, v)
                        ELSE Ret(TRUE)

RecCheck(node, v) ==
    IF v.t # "dict" THEN Ret(FALSE)
    ELSE LET unknown == SelectSeq(v.items, LAMBDA kv : kv[1] \notin node.known) IN
         IF Len(unknown) > 0 /\ "rest_schema" \notin DOMAIN node THEN Ret(FALSE)
         ELSE LET r == CheckRequired(node.required, 1, v) IN
              IF IsExc(r) THEN r
              ELSE IF ~r.ret THEN Ret(FALSE)
              ELSE LET o == CheckOptional(node.optional, 1, v) IN
                   IF IsExc(o) THEN o
                   ELSE IF ~o.ret THEN Ret(FALSE)
                   ELSE IF Len(unknown) > 0
                        THEN LET x == check(node.rest_schema, Dict(unknown)) IN
                             IF IsExc(x) THEN x
                             ELSE IF ~x.ret THEN Ret(FALSE)
                             ELSE Ret(TRUE)
                        ELSE Ret(TRUE)

\* SeqCheck with tail checked against the whole value
SeqCheckWhole(node, v) ==
    IF v.t # "list" THEN Ret(FALSE)
    ELSE LET n == Len(node.content_schema) IN
         IF Len(v.items) < n THEN Ret(FALSE)
         ELSE LET r == CheckEach([i \in 1..n |-> <<node.content_schema[i], v.items[i]>>],
                                 1, n) IN
              IF IsExc(r) THEN r
              ELSE IF ~r.ret THEN Ret(FALSE)
              ELSE IF Len(v.items) > n
                   THEN IF "tail_schema" \notin DOMAIN node THEN Ret(FALSE)
                        ELSE check(node.tail_schema, v)
                   ELSE Ret(TRUE)

SeqCheck(node, v) ==
    IF v.t # "list" THEN Ret(FALSE)
    ELSE LET n == Len(node.content_schema) IN
         IF Len(v.items) < n THEN Ret(FALSE)
         ELSE LET r == CheckEach([i \in 1..n |-> <<node.content_schema[i], v.items[i]>>],
                                 1, n) IN
              IF IsExc(r) THEN r
              ELSE IF ~r.ret THEN Ret(FALSE)
              ELSE IF Len(v.items) > n
                   THEN IF "tail_schema" \notin DOMAIN node THEN Ret(FALSE)
                        ELSE LET x == check(node.tail_schema,
                                            List(SubSeq(v.items, n + 1, Len(v.items)))) IN
                             IF IsExc(x) THEN x
                             ELSE IF ~x.ret THEN Ret(FALSE)
                             ELSE Ret(TRUE)
                   ELSE Ret(TRUE)

StrCheck(node, v) ==
    IF v.t # "str" THEN Ret(FALSE)
    ELSE IF ValueRejects(node, v) THEN Ret(FALSE)
    ELSE LET l == RangeRejects(node, "length", PyInt(Len(v.s))) IN
         IF IsExc(l) THEN l
         ELSE IF l.ret THEN Ret(FALSE)
         ELSE Ret(TRUE)

check(node, v) ==
    CASE node.kind = "all" -> AllCheck(node, v)
      [] node.kind = "any" -> AnyCheck(node, v)
      [] node.kind = "arr" -> ArrCheck(node, v)
      [] node.kind = "bool" -> BoolCheck(node, v)
      [] node.kind = "def" -> DefCheck(node, v)
      [] node.kind = "fail" -> FailCheck(node, v)
      [] node.kind = "int" -> IntCheck(node, v)
      [] node.kind = "map" -> MapCheck(node, v)
      [] node.kind = "nil" -> NilCheck(node, v)
      [] node.kind = "num" -> NumCheck(node, v)
      [] node.kind = "one" -> OneCheck(node, v)
      [] node.kind = "rec" -> RecCheck(node, v)
      [] node.kind = "seq" -> SeqCheck(node, v)
      [] node.kind = "str" -> StrCheck(node, v)

----------------------------------------------------------------------------
(* Factory: expand_uri and make_schema, and the constructors of the kinds. *)
(* rx is the Factory: [prefix_registry |-> ..., type_registry |-> ...].    *)

CoreBase == "tag:codesimply.com,2008:rx/core/"
MetaBase == "tag:codesimply.com,2008:rx/meta/"

core_types == <<"all", "any", "arr", "bool", "def", "fail", "int",
                "map", "nil", "num", "one", "rec", "seq", "str">>

\* _CoreType.uri
uri(subname) == CoreBase \o subname

\* A type name, by what the two regular expressions of expand_uri make of it:
\* '^\w+:' matches (the whole text is kept), or '^/(prefix)/(local)$'
\* matches with these two groups, or neither matches.
AbsName(text) == [t |-> "str", name |-> [form |-> "abs", text |-> text]]
RelName(prefix, local) ==
    [t |-> "str", name |-> [form |-> "rel", prefix |-> prefix, local |-> local]]
BadName == [t |-> "str", name |-> [form |-> "bad"]]

\* dict.get(name) is truthy: the name is a key and its base is not ''
PrefixKnown(rx, name) ==
    name \in DOMAIN rx.prefix_registry /\ rx.prefix_registry[name] # ""

expand_uri(rx, type_name) ==
    IF type_name.t # "str" THEN Raise("TypeError")
    ELSE LET m == type_name.name IN
         IF m.form = "abs" THEN Ret(m.text)
         ELSE IF m.form = "bad" THEN Raise("RxError")
         ELSE IF ~PrefixKnown(rx, m.prefix) THEN Raise("RxError")
         ELSE Ret(rx.prefix_registry[m.prefix] \o m.local)

\* the nested make_schema calls one interpreter stack holds
RecursionLimit == 6

RECURSIVE make_schema(_, _, _)
RECURSIVE MakeEach(_, _, _, _, _)
RECURSIVE MakeFields(_, _, _, _, _, _)

\* [rx.make_schema(s) for s in <list>]: the trees, or the first exception
MakeEach(rx, items, i, done, depth) ==
    IF i > Len(items) THEN Ret(done)
    ELSE LET r == make_schema(rx, items[i], depth) IN
         IF IsExc(r) THEN r
         ELSE MakeEach(rx, items, i + 1, Append(done, r.ret), depth)

\* set(schema.keys()) <= set(allowed)
OnlyKeys(d, allowed) == Keys(d) \subseteq allowed

\* schema.get(k), None when the key is missing
GetOrNone(d, k) == IF Has(d, k) THEN Get(d, k) ELSE Nil

\* the items a for loop or a comprehension draws from a list
Iter(v) == CASE v.t = "list" -> v.items

\* _CoreType.__init__ (bool, def, fail, nil, one)
CoreInit(kind, d, rx, depth) ==
    IF ~OnlyKeys(d, {"type"}) THEN Raise("RxError")
    ELSE Ret([kind |-> kind])

AllInit(d, rx, depth) ==
    IF ~OnlyKeys(d, {"type", "of"}) THEN Raise("RxError")
    ELSE IF ~Truthy(GetOrNone(d, "of")) THEN Raise("RxError")
    ELSE LET alts == MakeEach(rx, Iter(Get(d, "of")), 1, <<>>, depth) IN
         IF IsExc(alts) THEN alts
         ELSE Ret([kind |-> "all", alts |-> alts.ret])

AnyInit(d, rx, depth) ==
    IF ~OnlyKeys(d, {"type", "of"}) THEN Raise("RxError")
    ELSE IF GetOrNone(d, "of") = Nil THEN Ret([kind |-> "any"])
    ELSE IF ~Truthy(Get(d, "of")) THEN Raise("RxError")
    ELSE LET alts == MakeEach(rx, Iter(Get(d, "of")), 1, <<>>, depth) IN
         IF IsExc(alts) THEN alts
         ELSE Ret([kind |-> "any", alts |-> alts.ret])

ArrInit(d, rx, depth) ==
    IF ~OnlyKeys(d, {"type", "contents", "length"}) THEN Raise("RxError")
    ELSE IF ~Truthy(GetOrNone(d, "contents")) THEN Raise("RxError")
    ELSE LET c == make_schema(rx, Get(d, "contents"), depth) IN
         IF IsExc(c) THEN c
         ELSE IF ~Truthy(GetOrNone(d, "length"))
              THEN Ret([kind |-> "arr", content_schema |-> c.ret])
              ELSE LET l == make_range_check(Get(d, "length")) IN
                   IF IsExc(l) THEN l
                   ELSE Ret([kind |-> "arr", content_schema |-> c.ret,
                             length |-> l.ret])

\* the value and range attributes of IntType and NumType, added to node
WithRange(node, d, given) ==
    IF ~given THEN Ret(node)
    ELSE LET r == make_range_check(Get(d, "range")) IN
         IF IsExc(r) THEN r
         ELSE Ret(node @@ [range |-> r.ret])

IntInit(d, rx, depth) ==
    IF ~OnlyKeys(d, {"type", "range", "value"}) THEN Raise("RxError")
    ELSE IF Has(d, "value") /\ ~IsNumber(Get(d, "value")) THEN Raise("RxError")
    ELSE IF Has(d, "value") /\ Get(d, "value").frac # 0 THEN Raise("RxError")
    ELSE WithRange(IF Has(d, "value")
                   THEN [kind |-> "int", value |-> Get(d, "value")]
                   ELSE [kind |-> "int"],
                   d, Has(d, "range"))

MapInit(d, rx, depth) ==
    IF ~OnlyKeys(d, {"type", "values"}) THEN Raise("RxError")
    ELSE IF ~Truthy(GetOrNone(d, "values")) THEN Raise("RxError")
    ELSE LET v == make_schema(rx, Get(d, "values"), depth) IN
         IF IsExc(v) THEN v
         ELSE Ret([kind |-> "map", value_schema |-> v.ret])

NumInit(d, rx, depth) ==
    IF ~OnlyKeys(d, {"type", "range", "value"}) THEN Raise("RxError")
    ELSE IF Has(d, "value") /\ ~IsNumber(Get(d, "value")) THEN Raise("RxError")
    ELSE WithRange(IF Has(d, "value")
                   THEN [kind |-> "num", value |-> Get(d, "value")]
                   ELSE [kind |-> "num"],
                   d, Truthy(GetOrNone(d, "range")))

\* RecType.__init__: the loop over schema.get(which, {}).keys(), from field i
\* of fields on; node carries known and the dict named which
MakeFields(rx, fields, i, which, node, depth) ==
    IF i > Len(fields) THEN Ret(node)
    ELSE IF fields[i][1] \in node.known THEN Raise("RxError")
    ELSE LET r == make_schema(rx, fields[i][2], depth) IN
         IF IsExc(r) THEN r
         ELSE MakeFields(rx, fields, i + 1, which,
                         [node EXCEPT !.known = @ \cup {fields[i][1]},
                                      ![which] = Append(@, <<fields[i][1], r.ret>>)],
                         depth)

\* schema.get(which, {}).keys()
FieldsOf(d, which) ==
    IF ~Has(d, which) THEN Ret(<<>>)
    ELSE IF Get(d, which).t # "dict" THEN Raise("AttributeError")
    ELSE Ret(Get(d, which).items)

RecInit(d, rx, depth) ==
    IF ~OnlyKeys(d, {"type", "rest", "required", "optional"}) THEN Raise("RxError")
    ELSE LET rest == IF Truthy(GetOrNone(d, "rest"))
                     THEN make_schema(rx, Get(d, "rest"), depth)
                     ELSE Ret(Nil)
             base == [kind |-> "rec", known |-> {}, required |-> <<>>, optional |-> <<>>]
         IN  IF IsExc(rest) THEN rest
             ELSE LET rf == FieldsOf(d, "required") IN
                  IF IsExc(rf) THEN rf
                  ELSE LET req == MakeFields(rx, rf.ret, 1, "required",
                                             IF rest.ret = Nil THEN base
                                             ELSE base @@ [rest_schema |-> rest.ret],
                                             depth) IN
                       IF IsExc(req) THEN req
                       ELSE LET of == FieldsOf(d, "optional") IN
                            IF IsExc(of) THEN of
                            ELSE MakeFields(rx, of.ret, 1, "optional", req.ret, depth)

SeqInit(d, rx, depth) ==
    IF ~OnlyKeys(d, {"type", "contents", "tail"}) THEN Raise("RxError")
    ELSE IF ~Truthy(GetOrNone(d, "contents")) THEN Raise("RxError")
    ELSE LET c == MakeEach(rx, Iter(Get(d, "contents")), 1, <<>>, depth) IN
         IF IsExc(c) THEN c
         ELSE IF ~Truthy(GetOrNone(d, "tail"))
              THEN Ret([kind |-> "seq", content_schema |-> c.ret])
              ELSE LET tl == make_schema(rx, Get(d, "tail"), depth) IN
                   IF IsExc(tl) THEN tl
                   ELSE Ret([kind |-> "seq", content_schema |-> c.ret,
                             tail_schema |-> tl.ret])

StrInit(d, rx, depth) ==
    IF ~OnlyKeys(d, {"type", "value", "length"}) THEN Raise("RxError")
    ELSE IF Has(d, "value") /\ Get(d, "value").t # "str" THEN Raise("RxError")
    ELSE LET node == IF Has(d, "value")
                     THEN [kind |-> "str", value |-> Get(d, "value")]
                     ELSE [kind |-> "str"] IN
         IF ~Has(d, "length") THEN Ret(node)
         ELSE LET l == make_range_check(Get(d, "length")) IN
              IF IsExc(l) THEN l
              ELSE Ret(node @@ [length |-> l.ret])

\* type_class(schema, self) for a core class
Construct(kind, d, rx, depth) ==
    CASE kind = "all" -> AllInit(d, rx, depth)
      [] kind = "any" -> AnyInit(d, rx, depth)
      [] kind = "arr" -> ArrInit(d, rx, depth)
      [] kind = "int" -> IntInit(d, rx, depth)
      [] kind = "map" -> MapInit(d, rx, depth)
      [] kind = "num" -> NumInit(d, rx, depth)
      [] kind = "rec" -> RecInit(d, rx, depth)
      [] kind = "seq" -> SeqInit(d, rx, depth)
      [] kind = "str" -> StrInit(d, rx, depth)
      [] OTHER -> CoreInit(kind, d, rx, depth)

\* type_registry entries: a core class, or the dict {"schema": definition}
Builtin(kind) == [class |-> kind]
Alias(definition) == [schema |-> definition]
IsAlias(entry) == "schema" \in DOMAIN entry

\* Registered with only a class counting as an entry
RegisteredClass(rx, u) ==
    u \in DOMAIN rx.type_registry /\ ~IsAlias(rx.type_registry[u])

\* self.type_registry.get(uri) is truthy: a class and a one-key dict both are
Registered(rx, u) == u \in DOMAIN rx.type_registry

\* CompileDict with an alias taking any keys
CompileDictParams(rx, d, depth) ==
    IF ~Has(d, "type") THEN Raise("KeyError")
    ELSE LET u == expand_uri(rx, Get(d, "type")) IN
         IF IsExc(u) THEN u
         ELSE IF ~Registered(rx, u.ret) THEN Raise("RxError")
         ELSE LET type_class == rx.type_registry[u.ret] IN
              IF IsAlias(type_class)
              THEN make_schema(rx, type_class.schema, depth + 1)
              ELSE Construct(type_class.class, d, rx, depth + 1)

\* the body of make_schema once schema is a dict
CompileDict(rx, d, depth) ==
    IF ~Has(d, "type") THEN Raise("KeyError")
    ELSE LET u == expand_uri(rx, Get(d, "type")) IN
         IF IsExc(u) THEN u
         ELSE IF ~Registered(rx, u.ret) THEN Raise("RxError")
         ELSE LET type_class == rx.type_registry[u.ret] IN
              IF IsAlias(type_class)
              THEN IF ~OnlyKeys(d, {"type"}) THEN Raise("RxError")
                   ELSE make_schema(rx, type_class.schema, depth + 1)
              ELSE Construct(type_class.class, d, rx, depth + 1)

\* depth counts the make_schema frames below this one
make_schema(rx, definition, depth) ==
    IF depth >= RecursionLimit THEN Raise("RecursionError")
    ELSE IF definition.t = "str"
         THEN CompileDict(rx, Dict(<< <<"type", definition>> >>), depth)
         ELSE IF definition.t # "dict" THEN Raise("RxError")
              ELSE CompileDict(rx, definition, depth)

----------------------------------------------------------------------------
(* The inputs the calls are drawn from *)

PrefixNames == {"", ".meta", "p"}
Bases == {"", "tag:x:/"}

UriY == "tag:x:/y"
UriZ == "tag:x:/z"
LearnURIs == {UriY, UriZ, uri("str")}

RegisterKinds == {"str", "any"}

TypeOnly(name) == Dict(<< <<"type", name>> >>)

FactoryDefs ==
    { RelName("", "str"),
      RelName("", "any"),
      RelName("p", "y"),
      AbsName(UriZ),
      TypeOnly(AbsName(UriY)),
      Dict(<< <<"type", RelName("", "any")>>, <<"of", List(<<AbsName(UriZ)>>)>> >>),
      Dict(<< <<"type", AbsName(UriY)>>, <<"value", Str("z")>> >>),
      Dict(<< >>),
      PyInt(5) }

FactoryValues == {Str("z"), Str("a"), Nil}

None == [t |-> "none"]

----------------------------------------------------------------------------
(* The Factory and its calls *)

rx == [prefix_registry |-> prefix_registry, type_registry |-> type_registry]

Call(op, exc, msg) == [op |-> op, exc |-> exc, msg |-> msg]

\* Factory.__init__ with opt = {"register_core_types": flag}
FactoryInit(flag) ==
    /\ prefix_registry = ("" :> CoreBase @@ ".meta" :> MetaBase)
    /\ type_registry = IF flag
                       THEN [u \in {uri(core_types[i]) : i \in DOMAIN core_types} |->
                               Builtin(CHOOSE k \in {core_types[i] : i \in DOMAIN core_types} :
                                         uri(k) = u)]
                       ELSE << >>
    /\ last = Call("__init__", "none", "")

Init ==
    /\ py \in {2, 3}
    /\ \E flag \in BOOLEAN : FactoryInit(flag)
    /\ schema = None /\ tree = None /\ value = None /\ result = None

\* self.prefix_registry.get(name, None) is truthy
PrefixTaken(name) == PrefixKnown(rx, name)

add_prefix(name, base) ==
    /\ IF PrefixTaken(name)
       THEN /\ last' = Call("add_prefix", "RxError", "already registered")
            /\ UNCHANGED prefix_registry
       ELSE /\ prefix_registry' =
                  [n \in DOMAIN prefix_registry \cup {name} |->
                     IF n = name THEN base ELSE prefix_registry[n]]
            /\ last' = Call("add_prefix", "none", "")
    /\ UNCHANGED <<py, type_registry, schema, value, tree, result>>

register_type(t) ==
    /\ IF Registered(rx, uri(t))
       THEN /\ last' = Call("register_type", "ValueError", "already registered")
            /\ UNCHANGED type_registry
       ELSE /\ type_registry' = (uri(t) :> Builtin(t)) @@ type_registry
            /\ last' = Call("register_type", "none", "")
    /\ UNCHANGED <<py, prefix_registry, schema, value, tree, result>>

\* learn_type storing the alias before it compiles the definition
learn_type_store_first(u, definition) ==
    /\ IF Registered(rx, u)
       THEN /\ last' = Call("learn_type", "RxError", "already registered")
            /\ UNCHANGED type_registry
       ELSE LET stored == (u :> Alias(definition)) @@ type_registry
                r == make_schema([rx EXCEPT !.type_registry = stored], definition, 0)
            IN  /\ type_registry' = stored
                /\ last' = IF IsExc(r) THEN Call("learn_type", r.exc, "make_schema")
                           ELSE Call("learn_type", "none", "")
    /\ UNCHANGED <<py, prefix_registry, schema, value, tree, result>>

\* learn_type without the make_schema call
learn_type_unchecked(u, definition) ==
    /\ IF Registered(rx, u)
       THEN /\ last' = Call("learn_type", "RxError", "already registered")
            /\ UNCHANGED type_registry
       ELSE /\ type_registry' = (u :> Alias(definition)) @@ type_registry
            /\ last' = Call("learn_type", "none", "")
    /\ UNCHANGED <<py, prefix_registry, schema, value, tree, result>>

learn_type(u, definition) ==
    /\ IF Registered(rx, u)
       THEN /\ last' = Call("learn_type", "RxError", "already registered")
            /\ UNCHANGED type_registry
       ELSE LET r == make_schema(rx, definition, 0) IN
            IF IsExc(r)
            THEN /\ last' = Call("learn_type", r.exc, "make_schema")
                 /\ UNCHANGED type_registry
            ELSE /\ type_registry' = (u :> Alias(definition)) @@ type_registry
                 /\ last' = Call("learn_type", "none", "")
    /\ UNCHANGED <<py, prefix_registry, schema, value, tree, result>>

\* tree = rx.make_schema(definition)
MakeSchema(definition) ==
    /\ schema' = definition
    /\ tree' = make_schema(rx, definition, 0)
    /\ last' = Call("make_schema", IF IsExc(tree') THEN tree'.exc ELSE "none",
                    IF IsExc(tree') THEN "make_schema" ELSE "")
    /\ UNCHANGED <<py, prefix_registry, type_registry, value, result>>

\* result = tree.check(v)
Check(v) ==
    /\ tree # None /\ IsRet(tree)
    /\ value' = v
    /\ result' = check(tree.ret, v)
    /\ UNCHANGED <<py, prefix_registry, type_registry, last, schema, tree>>

Next ==
    \/ \E name \in PrefixNames, base \in Bases : add_prefix(name, base)
    \/ \E t \in RegisterKinds : register_type(t)
    \/ \E u \in LearnURIs, d \in FactoryDefs : learn_type(u, d)
    \/ \E d \in FactoryDefs : MakeSchema(d)

Spec == Init /\ [][Next]_vars

----------------------------------------------------------------------------
(* make_schema and check as functions of a definition and a value: the     *)
(* Factory holds the fourteen core types, the inputs are drawn at the      *)
(* start, MakeSchema compiles the definition and Check applies the tree.   *)

MaxBound == 2
MaxLen == 3

RECURSIVE Text(_)
Text(n) == IF n = 0 THEN "" ELSE "a" \o Text(n - 1)

\* the dict with the keys of f, in the order of keyOrder
DictOf(keyOrder, f) ==
    Dict(LET ks == SelectSeq(keyOrder, LAMBDA k : k \in DOMAIN f)
         IN  [i \in DOMAIN ks |-> <<ks[i], f[ks[i]]>>])

Core(subname) == RelName("", subname)

(* ranges with whole bounds, on int, num, str and arr *)
RangeOrder == <<"min", "max", "min-ex", "max-ex">>
BoundValues == {PyInt(-1), PyInt(0), PyInt(MaxBound)}
WholeRanges ==
    {DictOf(RangeOrder, f) : f \in UNION {[S -> BoundValues] : S \in SUBSET RangeKeys}}
ExampleRange == Dict(<< <<"min", PyInt(1)>>, <<"max-ex", PyInt(5)>> >>)

IntRange(r) == Dict(<< <<"type", Core("int")>>, <<"range", r>> >>)
NumRange(r) == Dict(<< <<"type", Core("num")>>, <<"range", r>> >>)
StrLength(r) == Dict(<< <<"type", Core("str")>>, <<"length", r>> >>)
ArrLength(r) ==
    Dict(<< <<"type", Core("arr")>>, <<"contents", Core("any")>>, <<"length", r>> >>)

Counted(lo, hi) ==
    {PyInt(n) : n \in lo..hi}
    \cup {Str(Text(n)) : n \in 0..hi}
    \cup {List([i \in 1..n |-> Nil]) : n \in 0..hi}

RangeInputs ==
    (UNION {{IntRange(r), NumRange(r), StrLength(r), ArrLength(r)} : r \in WholeRanges})
      \X Counted(-2, MaxBound + 1)
    \cup
    {IntRange(ExampleRange), NumRange(ExampleRange),
     StrLength(ExampleRange), ArrLength(ExampleRange)} \X Counted(0, 6)

(* rec over the fields a and b, against mappings over a, b and c *)
FieldOrder == <<"a", "b", "c">>
SchemaFields == {"a", "b"}
FieldSchemas(S, definition) == DictOf(FieldOrder, [k \in S |-> definition])
RestOfInts == Dict(<< <<"type", Core("map")>>, <<"values", Core("int")>> >>)

RecDef(R, O, rest) ==
    Dict(<< <<"type", Core("rec")>>,
            <<"required", FieldSchemas(R, Core("int"))>>,
            <<"optional", FieldSchemas(O, Core("str"))>> >>
         \o (IF rest = Nil THEN << >> ELSE << <<"rest", rest>> >>))

RecDefs ==
    {RecDef(R, O, rest) : R \in SUBSET SchemaFields, O \in SUBSET SchemaFields,
                          rest \in {Nil, RestOfInts, Core("fail")}}

Scalars == {PyInt(1), Str("s")}
Mappings ==
    {DictOf(FieldOrder, f) : f \in UNION {[S -> Scalars] : S \in SUBSET {"a", "b", "c"}}}
NonMappings == {Nil, PyInt(1), Str("a"), List(<<PyInt(1)>>), Bool(TRUE)}

RecInputs == RecDefs \X (Mappings \cup NonMappings)

(* seq of one or two positional schemas, against lists of up to MaxLen items *)
Positional == {Core("int"), Core("str")}
ContentLists == {List(<<x>>) : x \in Positional}
                \cup {List(<<x, y>>) : x \in Positional, y \in Positional}
TailOfInts == Dict(<< <<"type", Core("arr")>>, <<"contents", Core("int")>> >>)
TailOfOne ==
    Dict(<< <<"type", Core("arr")>>, <<"contents", Core("int")>>,
            <<"length", Dict(<< <<"max", PyInt(1)>> >>)>> >>)

SeqDef(contents, tail) ==
    Dict(<< <<"type", Core("seq")>>, <<"contents", contents>> >>
         \o (IF tail = Nil THEN << >> ELSE << <<"tail", tail>> >>))

SeqDefs ==
    {SeqDef(c, tl) : c \in ContentLists, tl \in {Nil, TailOfInts, TailOfOne, Core("fail")}}

Lists == {List(items) : items \in UNION {[1..n -> Scalars] : n \in 0..MaxLen}}
NonLists == {Nil, PyInt(1), Str("a"), Dict(<< <<"a", PyInt(1)>> >>), Bool(FALSE)}

SeqInputs == SeqDefs \X (Lists \cup NonLists)

(* every kind, and ranges whose bounds are text, a list, None or a bool,
   against values of every shape *)
OddBounds == {Str("a"), List(<< >>), Nil, Bool(TRUE)}
OddRanges == {Dict(<< <<k, b>> >>) : k \in RangeKeys, b \in OddBounds}

KindDefs ==
    {Core(core_types[i]) : i \in {4, 5, 6, 7, 9, 10, 11, 14}}
    \cup { Dict(<< <<"type", Core("all")>>, <<"of", List(<<Core("num"), Core("int")>>)>> >>),
           Core("any"),
           Dict(<< <<"type", Core("any")>>, <<"of", List(<<Core("nil"), Core("str")>>)>> >>),
           Dict(<< <<"type", Core("arr")>>, <<"contents", Core("num")>> >>),
           Dict(<< <<"type", Core("map")>>, <<"values", Core("one")>> >>),
           Dict(<< <<"type", Core("int")>>, <<"value", PyInt(5)>> >>),
           StrLength(Dict(<< <<"foo", PyInt(1)>> >>)),
           BadName,
           RecDef({"a"}, {}, Core("any")),
           SeqDef(List(<<Core("num"), Core("str")>>), TailOfInts) }
    \cup UNION {{IntRange(r), StrLength(r), ArrLength(r)} : r \in OddRanges}

Shapes ==
    { Nil, Bool(TRUE), Bool(FALSE), PyInt(0), PyInt(5), Num(5, 5), Str(""), Str("a"),
      List(<< >>), List(<<PyInt(1), Str("a")>>), List(<<List(<<Nil>>)>>),
      Dict(<< >>), Dict(<< <<"a", PyInt(1)>> >>),
      Dict(<< <<"a", Dict(<< <<"b", List(<<Bool(TRUE)>>)>> >>)>> >>) }

KindInputs == KindDefs \X Shapes

Inputs == RangeInputs \cup RecInputs \cup SeqInputs \cup KindInputs

InitCheck ==
    /\ py \in {2, 3}
    /\ FactoryInit(TRUE)
    /\ \E in \in Inputs : schema = in[1] /\ value = in[2]
    /\ tree = None /\ result = None

NextCheck ==
    \/ tree = None /\ MakeSchema(schema)
    \/ result = None /\ Check(value)

CheckSpec == InitCheck /\ [][NextCheck]_vars

----------------------------------------------------------------------------
(* Properties of the registries (under Spec) *)

\* C1: once add_prefix(name, b1) has succeeded, every later add_prefix(name, b2)
\* fails and leaves the registry as it was; this covers the two builtin
\* aliases, which are registered from construction.
PrefixUnique ==
    [][\A n \in DOMAIN prefix_registry : \A b \in Bases :
         add_prefix(n, b) =>
           /\ last'.exc = "RxError"
           /\ prefix_registry' = prefix_registry]_vars

\* C2: a registered URI keeps its entry for good (a class stays that class, an
\* alias stays that alias), and register_type and learn_type both fail on a
\* URI that is registered, whatever its entry is.
TypeUnique ==
    [][/\ \A u \in DOMAIN type_registry :
            u \in DOMAIN type_registry' /\ type_registry'[u] = type_registry[u]
       /\ \A t \in RegisterKinds :
            uri(t) \in DOMAIN type_registry /\ register_type(t) => last'.exc # "none"
       /\ \A u \in LearnURIs \cap DOMAIN type_registry : \A d \in FactoryDefs :
            learn_type(u, d) => last'.exc # "none"]_vars

TypeUniqueWitness ==
    /\ last.op = "register_type" /\ last.msg = "already registered"
    /\ uri("str") \in DOMAIN type_registry
    /\ IsAlias(type_registry[uri("str")])

\* C3: learn_type(uri, definition) succeeds exactly when uri is not registered
\* and the definition compiles in the registries of the moment; success adds
\* the one entry uri -> Alias(definition) and nothing else, failure changes
\* neither registry.
LearnTypeAtomic ==
    [][\A u \in LearnURIs, d \in FactoryDefs :
         last'.op = "learn_type" /\ learn_type(u, d) =>
           LET ok == u \notin DOMAIN type_registry /\ IsRet(make_schema(rx, d, 0)) IN
           /\ (last'.exc = "none") <=> ok
           /\ ok => /\ DOMAIN type_registry' = DOMAIN type_registry \cup {u}
                    /\ type_registry'[u] = Alias(d)
                    /\ \A w \in DOMAIN type_registry : type_registry'[w] = type_registry[w]
           /\ ~ok => type_registry' = type_registry
           /\ prefix_registry' = prefix_registry]_vars

LearnTypeWitness ==
    /\ last.op = "learn_type" /\ last.exc = "none"
    /\ \E u \in DOMAIN type_registry :
         /\ IsAlias(type_registry[u])
         /\ type_registry[u].schema.t = "dict"

\* C4: every failure of add_prefix, register_type, learn_type and make_schema
\* is an RxError.
OnlyRxError ==
    /\ last.exc \in {"none", "RxError"}
    /\ tree # None /\ IsExc(tree) => tree.exc = "RxError"

\* the type name of a definition, and whether it names a learned alias
TypeOf(d) == IF d.t = "str" THEN d ELSE Get(d, "type")
NamesAlias(d) ==
    /\ d.t = "str" \/ (d.t = "dict" /\ Has(d, "type"))
    /\ LET u == expand_uri(rx, TypeOf(d)) IN
       /\ IsRet(u)
       /\ u.ret \in DOMAIN type_registry
       /\ IsAlias(type_registry[u.ret])
AliasedBy(d) == type_registry[expand_uri(rx, TypeOf(d)).ret].schema

\* C6: make_schema of a definition that names a learned alias fails with
\* RxError when the definition has a key besides "type", and otherwise returns
\* the very tree that compiling the aliased definition returns, so that the
\* two agree on every value; the aliased definition may name an alias itself.
AliasUse ==
    [][\A d \in FactoryDefs :
         schema' = d /\ MakeSchema(d) /\ NamesAlias(d) =>
           IF d.t = "dict" /\ Keys(d) # {"type"}
           THEN tree' = Raise("RxError")
           ELSE /\ tree' = make_schema(rx, AliasedBy(d), 0)
                /\ IsRet(tree') =>
                     \A v \in FactoryValues :
                       check(tree'.ret, v) = check(make_schema(rx, AliasedBy(d), 0).ret, v)]_vars

AliasUseWitness ==
    /\ schema # None /\ tree # None
    /\ NamesAlias(schema)
    /\ NamesAlias(AliasedBy(schema))
    /\ IsRet(tree)
    /\ tree = make_schema(rx, AliasedBy(AliasedBy(schema)), 0)

\* the URIs a definition names, itself and through its sub-definitions
RECURSIVE Refs(_)
Refs(d) ==
    IF d.t = "str"
    THEN LET u == expand_uri(rx, d) IN IF IsRet(u) THEN {u.ret} ELSE {}
    ELSE IF d.t = "list" THEN UNION {Refs(d.items[i]) : i \in DOMAIN d.items}
    ELSE IF d.t # "dict" THEN {}
    ELSE UNION {IF d.items[i][1] = "type" THEN Refs(d.items[i][2])
                ELSE IF d.items[i][1] \in {"of", "contents", "values", "rest", "tail"}
                     THEN Refs(d.items[i][2])
                ELSE IF d.items[i][1] \in {"required", "optional"}
                        /\ d.items[i][2].t = "dict"
                     THEN UNION {Refs(d.items[i][2].items[j][2]) :
                                   j \in DOMAIN d.items[i][2].items}
                ELSE {} : i \in DOMAIN d.items}

Aliases == {u \in DOMAIN type_registry : IsAlias(type_registry[u])}

\* the URIs reached from the set S by following aliases, in at most n steps
RECURSIVE Reach(_, _)
Reach(S, n) ==
    IF n = 0 THEN S
    ELSE Reach(S \cup UNION {Refs(type_registry[u].schema) : u \in S \cap Aliases}, n - 1)

\* C10: an alias is learned only over URIs that are registered already, so
\* no alias reaches itself, and no make_schema runs out of stack.
NoCyclicAliases ==
    /\ [](\A u \in Aliases :
            /\ Refs(type_registry[u].schema) \subseteq DOMAIN type_registry
            /\ u \notin Reach(Refs(type_registry[u].schema), Cardinality(Aliases)))
    /\ [](last.exc # "RecursionError")
    /\ [][\A u \in DOMAIN type_registry' \ DOMAIN type_registry :
            IsAlias(type_registry'[u]) =>
              Refs(type_registry'[u].schema) \subseteq DOMAIN type_registry]_vars

NoCyclicAliasesWitness ==
    /\ last.op = "make_schema" /\ last.exc = "none"
    /\ schema = TypeOnly(AbsName(UriY))
    /\ UriY \in Aliases /\ UriZ \in Aliases
    /\ UriZ \in Refs(type_registry[UriY].schema)
    /\ uri("str") \in Aliases

----------------------------------------------------------------------------
(* Properties of make_schema and check (under CheckSpec) *)

\* C5: check ends in True or False, never in an exception.
CheckTotal == result # None => IsRet(result) /\ result.ret \in BOOLEAN

\* the value satisfies the compiled definition
Valid(definition, v) == check(make_schema(rx, definition, 0).ret, v) = Ret(TRUE)

IsKind(d, subname) == d.t = "dict" /\ Has(d, "type") /\ Get(d, "type") = Core(subname)

\* v restricted to the keys in U
Restrict(v, U) == Dict(SelectSeq(v.items, LAMBDA kv : kv[1] \in U))

RecAccepts(d, v) ==
    /\ v.t = "dict"
    /\ LET R == Keys(Get(d, "required"))
           O == Keys(Get(d, "optional"))
           K == Keys(v)
           U == K \ (R \cup O)
       IN  /\ \A f \in R : f \in K /\ Valid(Get(Get(d, "required"), f), Get(v, f))
           /\ \A f \in O \cap K : Valid(Get(Get(d, "optional"), f), Get(v, f))
           /\ \/ U = {}
              \/ Has(d, "rest") /\ Valid(Get(d, "rest"), Restrict(v, U))

\* C7: a rec compiles exactly when its required and optional fields are
\* disjoint; it accepts a mapping iff every required field is present and
\* valid, every present optional field is valid, and the unknown fields are
\* none or, as a mapping of their own, satisfy rest; it rejects what is no
\* mapping.
RecCheckFieldSets ==
    IsKind(schema, "rec") =>
      /\ tree # None =>
           (IsExc(tree) <=>
              Keys(Get(schema, "required")) \cap Keys(Get(schema, "optional")) # {})
      /\ result # None => result = Ret(RecAccepts(schema, value))

RecCheckWitness ==
    /\ IsKind(schema, "rec") /\ Has(schema, "rest")
    /\ value.t = "dict"
    /\ Keys(value) \cap Keys(Get(schema, "optional")) # {}
    /\ Keys(value) \ (Keys(Get(schema, "required")) \cup Keys(Get(schema, "optional"))) # {}
    /\ result = Ret(TRUE)

SeqAccepts(d, v) ==
    /\ v.t = "list"
    /\ LET contents == Get(d, "contents").items
           N == Len(contents)
           L == Len(v.items)
       IN  /\ L >= N
           /\ \A i \in 1..N : Valid(contents[i], v.items[i])
           /\ L > N => /\ Has(d, "tail")
                       /\ Valid(Get(d, "tail"), List([i \in 1..(L - N) |-> v.items[N + i]]))

\* C8: a seq of N schemas rejects a list shorter than N, accepts a list of N
\* items iff they match positionally (tail is not asked), accepts a longer
\* list iff its first N items match and tail accepts the rest as a list, and
\* rejects what is no list.
SeqCheckLength ==
    IsKind(schema, "seq") /\ result # None => result = Ret(SeqAccepts(schema, value))

SeqCheckWitness ==
    /\ IsKind(schema, "seq") /\ Has(schema, "tail")
    /\ value.t = "list"
    /\ Len(value.items) > Len(Get(schema, "contents").items)
    /\ value.items[1].t = "str"
    /\ result = Ret(TRUE)

\* a range whose bounds are whole numbers, given to int, num, str or arr
RangeParam(d) == IF Has(d, "range") THEN Get(d, "range") ELSE Get(d, "length")
IsWholeRange(r) ==
    /\ r.t = "dict"
    /\ Keys(r) \subseteq RangeKeys
    /\ \A i \in DOMAIN r.items : r.items[i][2].t = "num" /\ r.items[i][2].frac = 0
IsRangeCase(d, v) ==
    /\ \/ (IsKind(d, "int") \/ IsKind(d, "num")) /\ Keys(d) = {"type", "range"}
          /\ v.t = "num" /\ v.frac = 0
       \/ IsKind(d, "str") /\ Keys(d) = {"type", "length"} /\ v.t = "str"
       \/ IsKind(d, "arr") /\ Keys(d) = {"type", "contents", "length"}
          /\ Get(d, "contents") = Core("any") /\ v.t = "list"
    /\ IsWholeRange(RangeParam(d))

\* the number the range is applied to
Measure(v) ==
    CASE v.t = "num" -> v.n
      [] v.t = "str" -> Len(v.s)
      [] v.t = "list" -> Len(v.items)

InRange(r, n) ==
    /\ Has(r, "min") => n >= Get(r, "min").n
    /\ Has(r, "min-ex") => n > Get(r, "min-ex").n
    /\ Has(r, "max-ex") => n < Get(r, "max-ex").n
    /\ Has(r, "max") => n <= Get(r, "max").n

\* C9: int.range and num.range on a whole number, str.length on the count of
\* characters and arr.length on the count of items accept n iff n >= min,
\* n > min-ex, n < max-ex and n <= max, each for a bound that is set.
RangePredicate ==
    schema # None /\ result # None /\ IsRangeCase(schema, value) =>
      result = Ret(InRange(RangeParam(schema), Measure(value)))

RangeWitness ==
    /\ schema = StrLength(ExampleRange)
    /\ value = Str(Text(4))
    /\ result = Ret(TRUE)

====
